---------------------------- MODULE Spec2Model ----------------------------
(***************************************************************************)
(* A model of dhruva_shell (dsh): the line reader dsh_read_line, the       *)
(* tokenizer dsh_split_line, the launcher dsh_launch and the main loop     *)
(* dsh_loop, with the dispatcher dsh_execute and its built-ins.            *)
(*                                                                         *)
(* Characters are their codes (0..255); EOF is -1.  A buffer is a function *)
(* from the indices written so far to characters; a C string is read from  *)
(* a buffer up to its first NUL.                                           *)
(***************************************************************************)
EXTENDS Integers, Sequences, FiniteSets, TLC

VARIABLES
    rl,        \* the locals of dsh_read_line (SpecRL)
    rlInput,   \* the stream dsh_read_line was started on (SpecRL)
    sl,        \* the locals of dsh_split_line (SpecSL)
    slLine,    \* the line dsh_split_line was started on (SpecSL)
    proc,      \* Spec: the processes, pid -> record (the shell is pid 0)
    stdin,     \* Spec: the input after the offset the processes share, that
               \* is, what no process has taken into its stdin buffer
    sigchldIgn,\* Spec: SIGCHLD was inherited as ignored
    tty,       \* Spec: stdin and stdout are a terminal (stdout line-buffered
               \* and flushed when input is read), not a file or a pipe
    seekable   \* Spec: stdin is a regular file, whose offset can be moved

vars == <<rl, rlInput, sl, slLine, proc, stdin, sigchldIgn, tty, seekable>>

(***************************************************************************)
(* Program constants                                                       *)
(***************************************************************************)
DSH_RL_BUFSIZE == 1024
DSH_TOK_BUFSIZE == 64
\* a delimiter set that lacks the bell
DelimWithoutBell == {32, 9, 13, 10}
\* " \t\r\n\a"
DSH_TOK_DELIM == {32, 9, 13, 10, 7}
EOF == -1
LF == 10
NUL == 0
NULLP == -1
EXIT_SUCCESS == 0
EXIT_FAILURE == 1

(***************************************************************************)
(* Bounds of the model                                                     *)
(***************************************************************************)
\* dsh_read_line is run on streams of up to MaxK * 1024 + 1 characters
MaxK == 2
\* lines of up to MaxLineLen characters are tokenized exhaustively
MaxLineLen == 4
\* long lines hold up to MaxTokK * 64 + 1 tokens
MaxTokK == 2
\* a script on stdin holds up to MaxLines lines
MaxLines == 2

(***************************************************************************)
(* Buffers and C strings                                                   *)
(***************************************************************************)
\* a cell of a buffer that was allocated and never written
UNINIT == -2

\* buffer[i], the buffer's cells being numbered from 0
At(buf, i) == buf[i + 1]

\* buffer[i] = c
Store(buf, i, c) ==
    IF i < Len(buf)
    THEN [buf EXCEPT ![i + 1] = c]
    ELSE buf \o [k \in 1..(i - Len(buf)) |-> UNINIT] \o <<c>>

\* the buffer holding exactly the characters of a sequence, from index 0
BufOf(s) == s

\* the index of the first NUL at or after `from`; every C string has one
StrEnd(buf, from) ==
    CHOOSE e \in from..(Len(buf) - 1) :
        /\ At(buf, e) = NUL
        /\ \A j \in from..(e - 1) : At(buf, j) # NUL

\* the C string starting at index `from` of a buffer, without its NUL
CStr(buf, from) == SubSeq(buf, from + 1, StrEnd(buf, from))

\* the element of a one-element set; Only({e : x \in {v}}) is e with x
\* bound to v, evaluated once: a local variable that is assigned once and
\* read many times
Only(S) == CHOOSE r \in S : TRUE

(***************************************************************************)
(* dsh_read_line                                                           *)
(***************************************************************************)
\* the locals at entry, after malloc; failAt is the allocation that fails
\* (0: none), the first allocation being the malloc
RLInit(in, failAt) ==
    [ in       |-> in,
      buffer   |-> << >>,
      position |-> 0,
      bufsize  |-> DSH_RL_BUFSIZE,
      allocs   |-> 1,
      failAt   |-> failAt,
      oob      |-> FALSE,
      eof      |-> FALSE,
      pc       |-> IF failAt = 1 THEN "fatal" ELSE "loop" ]

\* c = getchar(): the next character of the stream, EOF at its end
GetChar(in) == IF in = << >> THEN EOF ELSE Head(in)
Consume(in) == IF in = << >> THEN in ELSE Tail(in)

\* realloc(buffer, bufsize) keeps the characters written so far
Realloc(buf) == buf

\* bufsize += DSH_RL_BUFSIZE; buffer = realloc(buffer, bufsize)
RLGrow(s) ==
    [s EXCEPT !.bufsize = s.bufsize + DSH_RL_BUFSIZE,
              !.buffer  = Realloc(s.buffer),
              !.allocs  = s.allocs + 1,
              !.pc      = IF s.failAt = s.allocs + 1 THEN "fatal" ELSE "loop"]

\* a variant that stops at the first full buffer instead of growing it
RLStepFixedBuf(s) ==
    LET c == GetChar(s.in)
    IN  IF c = EOF \/ c = LF \/ s.position + 1 >= s.bufsize
        THEN [s EXCEPT !.in = Consume(s.in),
                       !.buffer = Store(s.buffer, s.position, NUL),
                       !.pc = "done"]
        ELSE [s EXCEPT !.in = Consume(s.in),
                       !.buffer = Store(s.buffer, s.position, c),
                       !.position = s.position + 1]

\* an iteration that grows the buffer only once the position is past its
\* end
RLStepGrowsLate(s) ==
    LET c == GetChar(s.in)
        w == [s EXCEPT !.in = Consume(s.in),
                       !.oob = s.oob \/ s.position >= s.bufsize]
    IN  IF c = EOF \/ c = LF
        THEN [w EXCEPT !.buffer = Store(s.buffer, s.position, NUL),
                       !.eof = (c = EOF),
                       !.pc = "done"]
        ELSE LET t == [w EXCEPT !.buffer = Store(s.buffer, s.position, c),
                                !.position = s.position + 1]
             IN  IF t.position > t.bufsize THEN RLGrow(t) ELSE t

\* one iteration of the while (1) loop
RLStep(s) ==
    LET c == GetChar(s.in)
        w == [s EXCEPT !.in = Consume(s.in),
                       !.oob = s.oob \/ s.position >= s.bufsize]
    IN  IF c = EOF \/ c = LF
        THEN [w EXCEPT !.buffer = Store(s.buffer, s.position, NUL),
                       !.eof = (c = EOF),
                       !.pc = "done"]
        ELSE LET t == [w EXCEPT !.buffer = Store(s.buffer, s.position, c),
                                !.position = s.position + 1]
             IN  IF t.position >= t.bufsize THEN RLGrow(t) ELSE t

\* up to n iterations of the loop: the first half of them, then the rest
RECURSIVE RLSteps(_, _)
RLSteps(s, n) ==
    IF n = 0 \/ s.pc # "loop" THEN s
    ELSE IF n = 1 THEN RLStep(s)
    ELSE Only({ RLSteps(t, n - n \div 2) : t \in {RLSteps(s, n \div 2)}})

\* the whole call: the loop run until the return or the exit, evaluated
\* one buffer's worth of iterations at a time
RECURSIVE RLRun(_)
RLRun(s) ==
    IF s.pc = "loop"
    THEN Only({ RLRun(t) : t \in {RLSteps(s, DSH_RL_BUFSIZE)}})
    ELSE s

DshReadLine(in, failAt) ==
    Only({ RLRun(s) : s \in {RLInit(in, failAt)}})


(***************************************************************************)
(* dsh_split_line                                                          *)
(***************************************************************************)
\* the first index at or after i whose character is not in set D
SkipWhile(mem, i, D) ==
    CHOOSE e \in i..(Len(mem) - 1) :
        /\ At(mem, e) \notin D
        /\ \A j \in i..(e - 1) : At(mem, j) \in D

\* the first index at or after i that holds a space or the NUL, whatever
\* set D is
SkipUntilSpace(mem, i, D) ==
    CHOOSE e \in i..(Len(mem) - 1) :
        /\ At(mem, e) \in {32, NUL}
        /\ \A j \in i..(e - 1) : At(mem, j) \notin {32, NUL}

\* the first index at or after i whose character is in set D
SkipUntil(mem, i, D) ==
    CHOOSE e \in i..(Len(mem) - 1) :
        /\ At(mem, e) \in D
        /\ \A j \in i..(e - 1) : At(mem, j) \notin D

\* a tokenizer that does not skip the delimiters before a token, so that
\* a delimiter met first ends an empty token
StrTokKeepsEmpty(mem, s, delim) ==
    LET e == SkipUntil(mem, s, delim \cup {NUL})
    IN  IF At(mem, s) = NUL
        THEN [mem |-> mem, save |-> s, token |-> NULLP]
        ELSE IF At(mem, e) = NUL
             THEN [mem |-> mem, save |-> e, token |-> s]
             ELSE [mem |-> Store(mem, e, NUL), save |-> e + 1, token |-> s]

\* a tokenizer that also overwrites the delimiters it skips before a token
StrTokBlanksSkipped(mem, s, delim) ==
    LET b == SkipWhile(mem, s, delim)
        e == SkipUntil(mem, b, delim \cup {NUL})
        blanked == [i \in 1..Len(mem) |->
                       IF s <= i - 1 /\ i - 1 < b THEN NUL ELSE mem[i]]
    IN  IF At(mem, b) = NUL
        THEN [mem |-> mem, save |-> b, token |-> NULLP]
        ELSE IF At(mem, e) = NUL
             THEN [mem |-> blanked, save |-> e, token |-> b]
             ELSE [mem |-> Store(blanked, e, NUL), save |-> e + 1,
                   token |-> b]

\* strtok from index s of the string: skip the delimiters, and end the
\* token found by overwriting the delimiter after it with NUL
StrTok(mem, s, delim) ==
    Only({ Only({ IF At(mem, b) = NUL
                  THEN [mem |-> mem, save |-> b, token |-> NULLP]
                  ELSE IF At(mem, e) = NUL
                       THEN [mem |-> mem, save |-> e, token |-> b]
                       ELSE [mem |-> Store(mem, e, NUL), save |-> e + 1,
                             token |-> b] :
                  e \in {SkipUntil(mem, b, delim \cup {NUL})} }) :
           b \in {SkipWhile(mem, s, delim)} })

\* the locals after malloc and the first strtok(line, DSH_TOK_DELIM);
\* failAt is the allocation that fails (0: none)
SLInit(mem, failAt) ==
    LET r == StrTok(mem, 0, DSH_TOK_DELIM)
    IN  IF failAt = 1
        THEN [ mem |-> mem, save |-> NULLP, token |-> NULLP, tokens |-> << >>,
               position |-> 0, bufsize |-> DSH_TOK_BUFSIZE, allocs |-> 1,
               failAt |-> failAt, oob |-> FALSE, pc |-> "fatal" ]
        ELSE [ mem |-> r.mem, save |-> r.save, token |-> r.token,
               tokens |-> << >>, position |-> 0,
               bufsize |-> DSH_TOK_BUFSIZE, allocs |-> 1,
               failAt |-> failAt, oob |-> FALSE, pc |-> "loop" ]

\* an iteration that grows the token array only once the position is past
\* its end
SLStepGrowsLate(s) ==
    IF s.token = NULLP
    THEN [s EXCEPT !.tokens = Store(s.tokens, s.position, NULLP),
                   !.oob = s.oob \/ s.position >= s.bufsize,
                   !.pc = "done"]
    ELSE LET t == [s EXCEPT !.tokens = Store(s.tokens, s.position, s.token),
                            !.oob = s.oob \/ s.position >= s.bufsize,
                            !.position = s.position + 1]
             g == IF t.position > t.bufsize
                  THEN [t EXCEPT !.bufsize = t.bufsize + DSH_TOK_BUFSIZE,
                                 !.tokens = Realloc(t.tokens),
                                 !.allocs = t.allocs + 1,
                                 !.pc = IF t.failAt = t.allocs + 1
                                        THEN "fatal" ELSE "loop"]
                  ELSE t
         IN  IF g.pc = "fatal" THEN g
             ELSE Only({ [g EXCEPT !.mem = r.mem, !.save = r.save,
                                   !.token = r.token] :
                         r \in {StrTok(g.mem, g.save, DSH_TOK_DELIM)} })

\* one iteration of while (token != NULL), or the final tokens[position] = NULL
SLStep(s) ==
    IF s.token = NULLP
    THEN [s EXCEPT !.tokens = Store(s.tokens, s.position, NULLP),
                   !.oob = s.oob \/ s.position >= s.bufsize,
                   !.pc = "done"]
    ELSE LET t == [s EXCEPT !.tokens = Store(s.tokens, s.position, s.token),
                            !.oob = s.oob \/ s.position >= s.bufsize,
                            !.position = s.position + 1]
             g == IF t.position >= t.bufsize
                  THEN [t EXCEPT !.bufsize = t.bufsize + DSH_TOK_BUFSIZE,
                                 !.tokens = Realloc(t.tokens),
                                 !.allocs = t.allocs + 1,
                                 !.pc = IF t.failAt = t.allocs + 1
                                        THEN "fatal" ELSE "loop"]
                  ELSE t
         IN  IF g.pc = "fatal" THEN g
             ELSE Only({ [g EXCEPT !.mem = r.mem, !.save = r.save,
                                   !.token = r.token] :
                         r \in {StrTok(g.mem, g.save, DSH_TOK_DELIM)} })

\* up to n iterations of the loop: the first half of them, then the rest
RECURSIVE SLSteps(_, _)
SLSteps(s, n) ==
    IF n = 0 \/ s.pc # "loop" THEN s
    ELSE IF n = 1 THEN SLStep(s)
    ELSE Only({ SLSteps(t, n - n \div 2) : t \in {SLSteps(s, n \div 2)}})

\* the whole call: the loop run until the return or the exit, evaluated
\* one array's worth of iterations at a time
RECURSIVE SLRun(_)
SLRun(s) ==
    IF s.pc = "loop"
    THEN Only({ SLRun(t) : t \in {SLSteps(s, DSH_TOK_BUFSIZE)}})
    ELSE s

DshSplitLine(mem, failAt) ==
    Only({ SLRun(s) : s \in {SLInit(mem, failAt)}})

\* the strings of a token array: entry k is the C string tokens[k - 1]
\* points to, up to the end marker
ArgStrings(mem, tokens) ==
    LET n == CHOOSE k \in 0..(Len(tokens) - 1) :
                 /\ At(tokens, k) = NULLP
                 /\ \A j \in 0..(k - 1) : At(tokens, j) # NULLP
    IN  [k \in 1..n |-> CStr(mem, At(tokens, k - 1))]


(***************************************************************************)
(* SpecRL: dsh_read_line run on bounded streams, one loop iteration a step *)
(***************************************************************************)
\* all sequences over S of length at most n
SeqsUpTo(S, n) == UNION {[1..k -> S] : k \in 0..n}

\* the stream lengths around each multiple of the initial capacity
LongLens ==
    UNION {{k * DSH_RL_BUFSIZE - 1, k * DSH_RL_BUFSIZE, k * DSH_RL_BUFSIZE + 1}
           : k \in 1..MaxK}

\* a line of n characters, each determined by its place in the line
LongBody(n) == [i \in 1..n |-> 97 + (i % 5)]

\* what follows the line: the end of the stream, or a newline and more
RLTails == {<< >>, <<LF>>, <<LF, 98, LF>>}

RLInputs ==
    {b \o t : b \in SeqsUpTo({97, 32, NUL}, 2), t \in RLTails}
    \cup {LongBody(n) \o t : n \in LongLens, t \in {<< >>, <<LF, 98, LF>>}}

\* which allocation fails: none, the malloc, the first realloc
AllocFailures == 0..2

Idle == [pc |-> "idle"]

InitRL ==
    /\ rlInput \in RLInputs
    /\ \E f \in AllocFailures : rl = RLInit(rlInput, f)
    /\ sl = Idle /\ slLine = << >>
    /\ proc = << >> /\ stdin = << >> /\ sigchldIgn = FALSE /\ tty = FALSE
    /\ seekable = FALSE

RLLoop ==
    /\ rl.pc = "loop"
    /\ rl' = RLStep(rl)
    /\ UNCHANGED <<rlInput, sl, slLine, proc, stdin, sigchldIgn, tty,
                 seekable>>

NextRL == RLLoop

SpecRL == InitRL /\ [][NextRL]_vars

(***************************************************************************)
(* SpecSL: dsh_split_line run on bounded lines, one loop iteration a step  *)
(***************************************************************************)
\* a line of n one-character tokens separated by single spaces
LongLine(n) == [i \in 1..(2 * n - 1) |-> IF i % 2 = 1 THEN 97 ELSE 32]

LongTokCounts ==
    UNION {{k * DSH_TOK_BUFSIZE - 1, k * DSH_TOK_BUFSIZE, k * DSH_TOK_BUFSIZE + 1}
           : k \in 1..MaxTokK}

\* lines are C strings: they hold no NUL.  The short ones are all the lines
\* over a, b, space, tab, carriage return, newline and bell
SLLines ==
    SeqsUpTo({97, 98, 32, 9, 13, 10, 7}, MaxLineLen)
    \cup {LongLine(n) : n \in LongTokCounts}

InitSL ==
    /\ slLine \in SLLines
    /\ \E f \in AllocFailures : sl = SLInit(BufOf(slLine \o <<NUL>>), f)
    /\ rl = Idle /\ rlInput = << >>
    /\ proc = << >> /\ stdin = << >> /\ sigchldIgn = FALSE /\ tty = FALSE
    /\ seekable = FALSE

SLLoop ==
    /\ sl.pc = "loop"
    /\ sl' = SLStep(sl)
    /\ UNCHANGED <<rlInput, rl, slLine, proc, stdin, sigchldIgn, tty,
                 seekable>>

NextSL == SLLoop

SpecSL == InitSL /\ [][NextSL]_vars

(***************************************************************************)
(* Spec: the shell.  Every process is a record; the shell is process 0 and *)
(* a child made by fork starts as a copy of its parent.                    *)
(***************************************************************************)
\* the most children that can exist at a time (fork fails beyond it)
MaxChildren == 2

Shell == 0
Children == 1..MaxChildren
Pids == {Shell} \cup Children

\* the directories that exist, by their absolute paths: "/" and "/a"
ExistingDirs == {<<47>>, <<47, 97>>}
\* the names execvp finds on the search path: "ls"
Executables == {<<108, 115>>}

\* the spellings of the built-in names: "cd", "help", "exit"
CdName == <<99, 100>>
HelpName == <<104, 101, 108, 112>>
ExitName == <<101, 120, 105, 116>>

\* what a process last wrote to stderr in this iteration: the text before
\* the colon and the text after it
NoDiag == [prefix |-> "", text |-> ""]
\* fprintf(stderr, "dsh: allocation error\n")
DiagAlloc == [prefix |-> "dsh", text |-> "allocation error"]
DiagCdUsage == [prefix |-> "dsh", text |-> "expected argument to cd"]
\* perror("dsh") prints "dsh", a colon and the message of errno
Perror(errno) == [prefix |-> "dsh", text |-> errno]


\* strerror(errno) as perror prints it.  A failed execvp of a name that is
\* not found leaves ENOENT, "No such file or directory"
StrError(errno) ==
    CASE errno = "exec failed" ->
           <<78, 111, 32, 115, 117, 99, 104, 32, 102, 105, 108, 101, 32,
             111, 114, 32, 100, 105, 114, 101, 99, 116, 111, 114, 121>>
      [] OTHER -> << >>

\* the characters perror("dsh") writes: its argument "dsh", a colon, a
\* space and the message of errno
PerrorLine(d) ==
    (IF d.prefix = "dsh" THEN <<100, 115, 104>> ELSE << >>)
        \o <<58, 32>> \o StrError(d.text)

NoExit == [kind |-> "none", code |-> 0]

NoProc ==
    [ st |-> "none", image |-> "none", pc |-> "none", ppid |-> NULLP,
      line |-> << >>, lineSt |-> "unset", args |-> << >>, argsSt |-> "unset",
      status |-> UNINIT, cwd |-> << >>, pid |-> UNINIT, wstatus |-> "uninit",
      diag |-> NoDiag, exit |-> NoExit, stopSeen |-> FALSE,
      argv |-> << >>, execFile |-> << >>, execCwd |-> << >>,
      obufPrompt |-> FALSE, wrotePrompt |-> FALSE, eof |-> FALSE,
      ibuf |-> << >> ]

\* the shell as main starts it, about to call dsh_loop
InitProc(cwd) ==
    [NoProc EXCEPT !.st = "alive", !.image = "dsh", !.pc = "prompt", !.cwd = cwd]

\* process p is executing the shell's code
Runs(p) == proc[p].st = "alive" /\ proc[p].image = "dsh"

\* the process function after p ends with the given exit record: a child
\* whose parent ignores SIGCHLD leaves no zombie to wait for
Terminate(p, pr, ex) ==
    [proc EXCEPT ![p] = IF p # Shell /\ sigchldIgn
                        THEN NoProc
                        ELSE [pr EXCEPT !.st = "zombie", !.exit = ex]]

Exited(code) == [kind |-> "exited", code |-> code]

\* fflush(stdout): what the buffer holds is written out
Flushed(pr) ==
    [pr EXCEPT !.obufPrompt = FALSE,
               !.wrotePrompt = pr.wrotePrompt \/ pr.obufPrompt]

\* what exit() does to the input: the offset of a regular file is moved
\* back over the characters the stdin buffer still holds, so the input
\* `in` after the offset gets them in front; a pipe or a terminal cannot
\* take them back
Rewound(ibuf, in) == IF seekable THEN ibuf \o in ELSE in

\* exit(code), or the return of main: stdout is flushed, the characters of
\* the stdin buffer are given back to a regular file, the process ends.
\* The input after the step is Rewound(pr.ibuf, ...)
ExitCall(p, pr, code) ==
    Terminate(p, [Flushed(pr) EXCEPT !.ibuf = IF seekable THEN << >> ELSE @],
              Exited(code))
Signaled == [kind |-> "signaled", code |-> 0]

\* an allocation failure that is reported and then exits with success
AllocErrorExitsWithSuccess(p, pr) ==
    ExitCall(p, [pr EXCEPT !.diag = DiagAlloc], EXIT_SUCCESS)

\* if (!buffer) / if (!tokens): fprintf(stderr, "dsh: allocation error\n");
\* exit(EXIT_FAILURE), in the process whose memory is pr
AllocError(p, pr) ==
    ExitCall(p, [pr EXCEPT !.diag = DiagAlloc], EXIT_FAILURE)

(***************************************************************************)
(* dsh_loop                                                                *)
(***************************************************************************)
\* printf("dhruva > "): the prompt goes into the stdout buffer.  A buffer
\* that is not line-buffered is written out when this text fills it; on a
\* terminal the prompt stays in the buffer until input is read
Prompt(p) ==
    /\ Runs(p) /\ proc[p].pc = "prompt"
    /\ \E full \in (IF tty THEN {FALSE} ELSE BOOLEAN) :
         LET pr == [proc[p] EXCEPT !.pc = "read", !.diag = NoDiag,
                                   !.obufPrompt = TRUE]
         IN  proc' = [proc EXCEPT ![p] = IF full THEN Flushed(pr) ELSE pr]
    /\ UNCHANGED <<stdin, sigchldIgn, tty, seekable, rl, rlInput, sl, slLine>>

\* the stdin buffer and the input after a dsh_read_line call that started
\* with the buffer ibuf and the input `in`, and left r.in of their
\* characters unread.  getchar takes from the buffer, and fills the buffer
\* when it finds it empty: from a terminal with one line, from a file or a
\* pipe with all that is there (the scripts are shorter than a buffer)
AfterRead(ibuf, in, r) ==
    IF tty THEN [ibuf |-> << >>, in |-> r.in]
    ELSE IF Len(r.in) < Len(in) \/ r.eof
         THEN [ibuf |-> r.in, in |-> << >>]
         ELSE [ibuf |-> SubSeq(r.in, 1, Len(r.in) - Len(in)), in |-> in]

\* a reader that takes the end of the input as the end of the session, and
\* leaves with success when it meets it before any character
ReadLineExitsAtEOF(p) ==
    /\ Runs(p) /\ proc[p].pc = "read"
    /\ \E r \in {DshReadLine(proc[p].ibuf \o stdin, 0)} :
       \E a \in {AfterRead(proc[p].ibuf, stdin, r)} :
           IF r.eof /\ r.position = 0
           THEN /\ proc' = ExitCall(p, proc[p], EXIT_SUCCESS)
                /\ stdin' = a.in
           ELSE /\ proc' = [proc EXCEPT ![p].line = r.buffer,
                                        ![p].lineSt = "live",
                                        ![p].eof = r.eof,
                                        ![p].ibuf = a.ibuf,
                                        ![p].pc = "split"]
                /\ stdin' = a.in
    /\ UNCHANGED <<sigchldIgn, tty, seekable, rl, rlInput, sl, slLine>>

\* line = dsh_read_line(); on a terminal, reading input flushes stdout; the
\* end-of-file indicator of stdin is set when getchar met the end
ReadLine(p) ==
    /\ Runs(p) /\ proc[p].pc = "read"
    /\ \E f \in AllocFailures :
         \E r \in {DshReadLine(proc[p].ibuf \o stdin, f)} :
         \E a \in {AfterRead(proc[p].ibuf, stdin, r)} :
             IF r.pc = "fatal"
             THEN /\ proc' = AllocError(p, [proc[p] EXCEPT !.ibuf = a.ibuf])
                  /\ stdin' = Rewound(a.ibuf, a.in)
             ELSE /\ proc' = [proc EXCEPT
                                ![p] = [(IF tty THEN Flushed(proc[p])
                                         ELSE proc[p])
                                        EXCEPT !.line = r.buffer,
                                               !.lineSt = "live",
                                               !.eof = proc[p].eof \/ r.eof,
                                               !.ibuf = a.ibuf,
                                               !.pc = "split"]]
                  /\ stdin' = a.in
    /\ UNCHANGED <<sigchldIgn, tty, seekable, rl, rlInput, sl, slLine>>

\* a tokenizer step after which the line is released at once, as if the
\* tokens were copies
SplitLineFreesLine(p) ==
    /\ Runs(p) /\ proc[p].pc = "split"
    /\ \E s \in {DshSplitLine(proc[p].line, 0)} :
           proc' = [proc EXCEPT ![p].line = s.mem,
                                ![p].lineSt = "freed",
                                ![p].args = s.tokens,
                                ![p].argsSt = "live",
                                ![p].pc = "execute"]
    /\ UNCHANGED <<stdin, sigchldIgn, tty, seekable, rl, rlInput, sl, slLine>>

\* args = dsh_split_line(line)
SplitLine(p) ==
    /\ Runs(p) /\ proc[p].pc = "split"
    /\ \E f \in AllocFailures :
         \E s \in {DshSplitLine(proc[p].line, f)} :
             IF s.pc = "fatal"
             THEN /\ proc' = AllocError(p, [proc[p] EXCEPT !.line = s.mem])
                  /\ stdin' = Rewound(proc[p].ibuf, stdin)
             ELSE /\ proc' = [proc EXCEPT ![p].line = s.mem,
                                          ![p].args = s.tokens,
                                          ![p].argsSt = "live",
                                          ![p].pc = "execute"]
                  /\ stdin' = stdin
    /\ UNCHANGED <<sigchldIgn, tty, seekable, rl, rlInput, sl, slLine>>

(***************************************************************************)
(* dsh_execute and the built-ins cd, help, exit                            *)
(***************************************************************************)
\* a cd that changes the directory whatever chdir answered
DshCdIgnoringFailure(pr, toks, chdirOk) ==
    IF Len(toks) < 2
    THEN [pr EXCEPT !.diag = DiagCdUsage, !.status = 1, !.pc = "free"]
    ELSE [pr EXCEPT !.cwd = toks[2], !.status = 1, !.pc = "free"]

\* cd: without token 1 a usage diagnostic; otherwise chdir(token 1), which
\* succeeds only on an existing directory, and a diagnostic when it fails
DshCd(pr, toks, chdirOk) ==
    IF Len(toks) < 2
    THEN [pr EXCEPT !.diag = DiagCdUsage, !.status = 1, !.pc = "free"]
    ELSE IF chdirOk /\ toks[2] \in ExistingDirs
         THEN [pr EXCEPT !.cwd = toks[2], !.status = 1, !.pc = "free"]
         ELSE [pr EXCEPT !.diag = Perror("chdir failed"),
                         !.status = 1, !.pc = "free"]

\* help: prints the list of built-ins
DshHelp(pr) == [pr EXCEPT !.status = 1, !.pc = "free"]

\* exit: no effect, signals stop
DshExit(pr) == [pr EXCEPT !.status = 0, !.pc = "free"]

\* status = dsh_execute(args): no token, a built-in matched on token 0 in
\* the order cd, help, exit, or the call of dsh_launch(args)
DshExecute(pr, chdirOk) ==
    Only({ IF toks = << >> THEN [pr EXCEPT !.status = 1, !.pc = "free"]
           ELSE IF toks[1] = CdName THEN DshCd(pr, toks, chdirOk)
           ELSE IF toks[1] = HelpName THEN DshHelp(pr)
           ELSE IF toks[1] = ExitName THEN DshExit(pr)
           ELSE [pr EXCEPT !.pc = "l_fork", !.pid = UNINIT,
                           !.wstatus = "uninit"] :
           toks \in {ArgStrings(pr.line, pr.args)} })

Execute(p) ==
    /\ Runs(p) /\ proc[p].pc = "execute"
    /\ \E chdirOk \in BOOLEAN :
         proc' = [proc EXCEPT ![p] = DshExecute(proc[p], chdirOk)]
    /\ UNCHANGED <<stdin, sigchldIgn, tty, seekable, rl, rlInput, sl, slLine>>

(***************************************************************************)
(* dsh_launch                                                              *)
(***************************************************************************)
\* a child that starts in the root directory instead of its parent's
ForkChildInRoot(pr, parent) ==
    [pr EXCEPT !.ppid = parent, !.pid = 0, !.pc = "l_pid",
               !.stopSeen = FALSE, !.exit = NoExit, !.wrotePrompt = FALSE,
               !.cwd = <<47>>]

\* the child fork makes: a duplicate of its parent that sees fork return 0
ForkChild(pr, parent) ==
    [pr EXCEPT !.ppid = parent, !.pid = 0, !.pc = "l_pid",
               !.stopSeen = FALSE, !.exit = NoExit, !.wrotePrompt = FALSE]

\* pid = fork(): a new child, or -1 when no process can be made
Fork(p) ==
    /\ Runs(p) /\ proc[p].pc = "l_fork"
    /\ \/ \E c \in Children :
            /\ proc[c].st = "none"
            /\ \A d \in Children : d < c => proc[d].st # "none"
            /\ proc' = [proc EXCEPT ![p].pid = c, ![p].pc = "l_pid",
                                    ![c] = ForkChild(proc[p], p)]
       \/ proc' = [proc EXCEPT ![p].pid = -1, ![p].pc = "l_pid"]
    /\ UNCHANGED <<stdin, sigchldIgn, tty, seekable, rl, rlInput, sl, slLine>>

\* the child after a failed execvp: perror("dsh"); exit(EXIT_FAILURE)
ChildExecFailed(p) ==
    ExitCall(p, [proc[p] EXCEPT !.diag = Perror("exec failed")],
             EXIT_FAILURE)

\* an argument vector that starts after the command name
ExecArgvWithoutName(pr) == Tail(ArgStrings(pr.line, pr.args))

\* the second argument of execvp: args, the strings the token array of the
\* process points to, up to its end marker
ExecArgv(pr) == ArgStrings(pr.line, pr.args)

\* the first argument of execvp: args[0]
ExecFile(pr) == CStr(pr.line, At(pr.args, 0))

\* pid == 0: execvp(args[0], args) replaces the image when args[0] names an
\* executable; it can fail for any name
LaunchChild(p) ==
    /\ Runs(p) /\ proc[p].pc = "l_pid" /\ proc[p].pid = 0
    /\ \/ /\ ExecFile(proc[p]) \in Executables
          /\ proc' = [proc EXCEPT
                        ![p].image = "prog", ![p].pc = "none",
                        ![p].obufPrompt = FALSE,
                        ![p].argv = ExecArgv(proc[p]),
                        ![p].execFile = ExecFile(proc[p]),
                        ![p].execCwd = proc[p].cwd]
          /\ stdin' = stdin
       \/ /\ proc' = ChildExecFailed(p)
          /\ stdin' = Rewound(proc[p].ibuf, stdin)
    /\ UNCHANGED <<sigchldIgn, tty, seekable, rl, rlInput, sl, slLine>>

\* a failed fork that is passed over in silence
LaunchForkFailedSilently(p) ==
    /\ Runs(p) /\ proc[p].pc = "l_pid" /\ proc[p].pid < 0
    /\ proc' = [proc EXCEPT ![p].pc = "l_ret"]
    /\ UNCHANGED <<stdin, sigchldIgn, tty, seekable, rl, rlInput, sl, slLine>>

\* pid < 0: perror("dsh")
LaunchForkFailed(p) ==
    /\ Runs(p) /\ proc[p].pc = "l_pid" /\ proc[p].pid < 0
    /\ proc' = [proc EXCEPT ![p].diag = Perror("fork failed"),
                            ![p].pc = "l_ret"]
    /\ UNCHANGED <<stdin, sigchldIgn, tty, seekable, rl, rlInput, sl, slLine>>

\* a parent that does not wait for its child
LaunchParentNoWait(p) ==
    /\ Runs(p) /\ proc[p].pc = "l_pid" /\ proc[p].pid > 0
    /\ proc' = [proc EXCEPT ![p].pc = "l_ret"]
    /\ UNCHANGED <<stdin, sigchldIgn, tty, seekable, rl, rlInput, sl, slLine>>

\* pid > 0: the parent enters the do-while
LaunchParent(p) ==
    /\ Runs(p) /\ proc[p].pc = "l_pid" /\ proc[p].pid > 0
    /\ proc' = [proc EXCEPT ![p].pc = "l_wait"]
    /\ UNCHANGED <<stdin, sigchldIgn, tty, seekable, rl, rlInput, sl, slLine>>

\* the values an int that was never assigned can be read as
StatusKinds == {"exited", "signaled", "stopped"}

\* a single waitpid, with no loop around it
WaitAgainNever(wstatus) == FALSE

\* while (!WIFEXITED(status) && !WIFSIGNALED(status))
WaitAgain(wstatus) == wstatus # "exited" /\ wstatus # "signaled"

\* wpid = waitpid(pid, &status, WUNTRACED), then the loop condition.  The
\* call returns when the child has ended (and reaps it), when it has stopped
\* (once per stop), or with -1 and status untouched when there is no child
WaitPid(p) ==
    /\ Runs(p) /\ proc[p].pc = "l_wait"
    /\ LET c == proc[p].pid
       IN  \E u \in StatusKinds :
             LET ws == CASE proc[c].st = "zombie" -> proc[c].exit.kind
                         [] proc[c].st = "stopped" -> "stopped"
                         [] OTHER -> IF proc[p].wstatus = "uninit"
                                     THEN u ELSE proc[p].wstatus
                 me == [proc[p] EXCEPT !.wstatus = ws,
                          !.pc = IF WaitAgain(ws) THEN "l_wait" ELSE "l_ret"]
             IN  /\ \/ proc[c].st = "zombie"
                    \/ proc[c].st = "stopped" /\ ~proc[c].stopSeen
                    \/ proc[c].st = "none"
                 /\ proc' = [proc EXCEPT
                       ![p] = me,
                       ![c] = IF proc[c].st = "zombie" THEN NoProc
                              ELSE IF proc[c].st = "stopped"
                                   THEN [proc[c] EXCEPT !.stopSeen = TRUE]
                                   ELSE proc[c]]
    /\ UNCHANGED <<stdin, sigchldIgn, tty, seekable, rl, rlInput, sl, slLine>>

\* a launcher that hands the child's fate on to the loop
LaunchReturnChildStatus(p) ==
    /\ Runs(p) /\ proc[p].pc = "l_ret"
    /\ proc' = [proc EXCEPT
                  ![p].status = IF proc[p].wstatus = "exited" THEN 0 ELSE 1,
                  ![p].pc = "free"]
    /\ UNCHANGED <<stdin, sigchldIgn, tty, seekable, rl, rlInput, sl, slLine>>

\* return 1
LaunchReturn(p) ==
    /\ Runs(p) /\ proc[p].pc = "l_ret"
    /\ proc' = [proc EXCEPT ![p].status = 1, ![p].pc = "free"]
    /\ UNCHANGED <<stdin, sigchldIgn, tty, seekable, rl, rlInput, sl, slLine>>

(***************************************************************************)
(* dsh_loop, continued, and main                                           *)
(***************************************************************************)
\* an iteration that frees the line and forgets the token array
FreeLineOnly(p) ==
    /\ Runs(p) /\ proc[p].pc = "free"
    /\ proc' = [proc EXCEPT ![p].lineSt = "freed", ![p].pc = "while"]
    /\ UNCHANGED <<stdin, sigchldIgn, tty, seekable, rl, rlInput, sl, slLine>>

\* free(line); free(args)
Free(p) ==
    /\ Runs(p) /\ proc[p].pc = "free"
    /\ proc' = [proc EXCEPT ![p].lineSt = "freed", ![p].argsSt = "freed",
                            ![p].pc = "while"]
    /\ UNCHANGED <<stdin, sigchldIgn, tty, seekable, rl, rlInput, sl, slLine>>

\* a loop that never ends
LoopAgainAlways(status) == TRUE

\* while (status)
LoopAgain(status) == status # 0

LoopCheck(p) ==
    /\ Runs(p) /\ proc[p].pc = "while"
    /\ proc' = [proc EXCEPT ![p].pc = IF LoopAgain(proc[p].status)
                                     THEN "prompt" ELSE "main_ret"]
    /\ UNCHANGED <<stdin, sigchldIgn, tty, seekable, rl, rlInput, sl, slLine>>

\* a main that reports the fate of the last command it launched
MainReturnLastCommand(p) ==
    /\ Runs(p) /\ proc[p].pc = "main_ret"
    /\ proc' = ExitCall(p, proc[p], IF proc[p].wstatus = "signaled"
                                    THEN EXIT_FAILURE ELSE EXIT_SUCCESS)
    /\ stdin' = Rewound(proc[p].ibuf, stdin)
    /\ UNCHANGED <<sigchldIgn, tty, seekable, rl, rlInput, sl, slLine>>

\* dsh_loop has returned to main: return EXIT_SUCCESS
MainReturn(p) ==
    /\ Runs(p) /\ proc[p].pc = "main_ret"
    /\ proc' = ExitCall(p, proc[p], EXIT_SUCCESS)
    /\ stdin' = Rewound(proc[p].ibuf, stdin)
    /\ UNCHANGED <<sigchldIgn, tty, seekable, rl, rlInput, sl, slLine>>

(***************************************************************************)
(* What happens to a child from outside the shell's code                   *)
(***************************************************************************)
\* the launched program ends with some exit code
ProgExit(c) ==
    /\ c # Shell /\ proc[c].st = "alive" /\ proc[c].image = "prog"
    /\ \E code \in {0, 1, 2} : proc' = Terminate(c, proc[c], Exited(code))
    /\ UNCHANGED <<stdin, sigchldIgn, tty, seekable, rl, rlInput, sl, slLine>>

\* the launched program changes its own working directory
ProgChdir(c) ==
    /\ c # Shell /\ proc[c].st = "alive" /\ proc[c].image = "prog"
    /\ \E d \in ExistingDirs : d # proc[c].cwd /\ proc' = [proc EXCEPT ![c].cwd = d]
    /\ UNCHANGED <<stdin, sigchldIgn, tty, seekable, rl, rlInput, sl, slLine>>

\* a signal kills the child, before or after its exec
ChildKilled(c) ==
    /\ c # Shell /\ proc[c].st \in {"alive", "stopped"}
    /\ proc' = Terminate(c, proc[c], Signaled)
    /\ UNCHANGED <<stdin, sigchldIgn, tty, seekable, rl, rlInput, sl, slLine>>

\* a signal stops the child
ChildStopped(c) ==
    /\ c # Shell /\ proc[c].st = "alive"
    /\ proc' = [proc EXCEPT ![c].st = "stopped", ![c].stopSeen = FALSE]
    /\ UNCHANGED <<stdin, sigchldIgn, tty, seekable, rl, rlInput, sl, slLine>>

\* SIGCONT resumes the child
ChildContinued(c) ==
    /\ c # Shell /\ proc[c].st = "stopped"
    /\ proc' = [proc EXCEPT ![c].st = "alive"]
    /\ UNCHANGED <<stdin, sigchldIgn, tty, seekable, rl, rlInput, sl, slLine>>

(***************************************************************************)
(* The scripts on stdin                                                    *)
(***************************************************************************)
\* "", " \t", "exit", "exit x", "cd", "cd /a", "cd /", "cd /x", "help",
\* "ls -l" and "no" (no such executable)
ScriptLines ==
    { << >>, <<32, 9>>, ExitName, ExitName \o <<32, 120>>,
      CdName, CdName \o <<32, 47, 97>>, CdName \o <<32, 47>>,
      CdName \o <<32, 47, 120>>, HelpName,
      <<108, 115, 32, 45, 108>>, <<110, 111>> }

RECURSIVE Flatten(_)
Flatten(ls) == IF ls = << >> THEN << >> ELSE Head(ls) \o <<LF>> \o Flatten(Tail(ls))

\* lines that fill the first buffer of dsh_read_line (1024 characters) and
\* the first token array of dsh_split_line (64 tokens), and an "exit" that
\* the end of the stream ends, not a newline
EdgeScripts ==
    { LongBody(DSH_RL_BUFSIZE) \o <<LF>>,
      LongLine(DSH_TOK_BUFSIZE) \o <<LF>>,
      ExitName }

\* up to MaxLines lines, each ended by a newline; the stream then ends
Scripts ==
    {Flatten(ls) : ls \in SeqsUpTo(ScriptLines, MaxLines)} \cup EdgeScripts

Init ==
    /\ stdin \in Scripts
    /\ sigchldIgn \in BOOLEAN
    /\ tty \in BOOLEAN
    /\ seekable \in (IF tty THEN {FALSE} ELSE BOOLEAN)
    /\ proc = [p \in Pids |-> IF p = Shell THEN InitProc(<<47>>) ELSE NoProc]
    /\ rl = Idle /\ rlInput = << >> /\ sl = Idle /\ slLine = << >>

Next ==
    \E p \in Pids :
        \/ Prompt(p) \/ ReadLine(p) \/ SplitLine(p) \/ Execute(p)
        \/ Fork(p) \/ LaunchChild(p) \/ LaunchForkFailed(p) \/ LaunchParent(p)
        \/ WaitPid(p) \/ LaunchReturn(p)
        \/ Free(p) \/ LoopCheck(p) \/ MainReturn(p)
        \/ ProgExit(p) \/ ProgChdir(p)
        \/ ChildKilled(p) \/ ChildStopped(p) \/ ChildContinued(p)

Spec == Init /\ [][Next]_vars

\* the steps of the shell's own code in process p
ProgramStep(p) ==
    \/ Prompt(p) \/ ReadLine(p) \/ SplitLine(p) \/ Execute(p)
    \/ Fork(p) \/ LaunchChild(p) \/ LaunchForkFailed(p) \/ LaunchParent(p)
    \/ WaitPid(p) \/ LaunchReturn(p)
    \/ Free(p) \/ LoopCheck(p) \/ MainReturn(p)

\* the shell under a scheduler that lets every process that can run its
\* code take its next step; nothing is assumed of the launched programs
\* or of the signals
SpecFair == Spec /\ \A p \in Pids : WF_vars(ProgramStep(p))

(***************************************************************************)
(* Claims about dsh_read_line                                              *)
(***************************************************************************)
\* the characters of a stream before its first newline, or all of them
FirstLine(in) ==
    IF \E i \in 1..Len(in) : in[i] = LF
    THEN SubSeq(in, 1, (CHOOSE i \in 1..Len(in) :
                            in[i] = LF /\ \A j \in 1..(i - 1) : in[j] # LF) - 1)
    ELSE in

HasNul(s) == \E i \in 1..Len(s) : s[i] = NUL

ClaimDelims == {32, 9, 13, 10, 7}

\* where a maximal run of non-delimiter characters starts, and where it ends
RunStarts(s) ==
    {i \in 1..Len(s) : s[i] \notin ClaimDelims
                       /\ (i = 1 \/ s[i - 1] \in ClaimDelims)}
RunEnds(s) ==
    {i \in 1..Len(s) : s[i] \notin ClaimDelims
                       /\ (i = Len(s) \/ s[i + 1] \in ClaimDelims)}

\* the k-th smallest element of a set of numbers
Nth(S, k) == CHOOSE x \in S : Cardinality({y \in S : y < x}) = k - 1

\* the maximal runs of non-delimiter characters of a line, left to right
MaximalRuns(s) ==
    [k \in 1..Cardinality(RunStarts(s)) |->
        SubSeq(s, Nth(RunStarts(s), k), Nth(RunEnds(s), k))]

\* C2: for every line, dsh_split_line returns exactly the maximal runs of
\* non-delimiter characters in left-to-right order, followed by the end
\* marker; no token is empty and no token holds a delimiter.
C2_SplitMaximalRuns ==
    sl.pc = "done" =>
        LET toks == ArgStrings(sl.mem, sl.tokens)
        IN  /\ toks = MaximalRuns(slLine)
            /\ Len(toks) = sl.position
            /\ At(sl.tokens, sl.position) = NULLP
            /\ \A k \in 1..Len(toks) :
                   /\ toks[k] # << >>
                   /\ \A i \in 1..Len(toks[k]) : toks[k][i] \notin ClaimDelims

\* a line whose two tokens are separated by a run of two delimiters, a tab
\* and a bell, was split into exactly these two tokens
C2_Witness ==
    /\ sl.pc = "done"
    /\ slLine = <<97, 9, 7, 98>>
    /\ ArgStrings(sl.mem, sl.tokens) = << <<97>>, <<98>> >>


(***************************************************************************)
(* Claims about the loop, the dispatcher and the launcher                  *)
(***************************************************************************)
Stepped(p) == proc'[p] # proc[p]
\* the characters p has yet to read: those its stdin buffer holds, then
\* the input after the shared offset
Unread(p) == proc[p].ibuf \o stdin
OthersUnchanged(p) == \A q \in Pids \ {p} : proc'[q] = proc[q]

\* the tokens of p's current line, once it has been split
Toks(p) == ArgStrings(proc[p].line, proc[p].args)
\* p is between the tokenizer's return and the next prompt: args holds the
\* tokens of line
Tokenized(p) ==
    proc[p].pc \in {"execute", "l_fork", "l_pid", "l_wait", "l_ret",
                    "free", "while", "main_ret"}
HasToks(p) == Tokenized(p) /\ Toks(p) # << >>

AllDelims(s) == \A i \in 1..Len(s) : s[i] \in ClaimDelims
BlankLine(p) == proc[p].lineSt # "unset" /\ AllDelims(CStr(proc[p].line, 0))

\* C3: an iteration whose line is empty or holds only delimiters is a no-op:
\* the tokenizer yields the end marker as first element, the dispatcher
\* returns "continue" and changes nothing else (no child, same working
\* directory, no input consumed), and the loop goes on to the next prompt.
C3_BlankLineIsNoOp ==
    [][\A p \in Pids : (Runs(p) /\ BlankLine(p) /\ Stepped(p)) =>
          /\ proc[p].pc = "split" /\ proc'[p].pc = "execute"
                => At(proc'[p].args, 0) = NULLP
          /\ proc[p].pc = "execute"
                => /\ proc' = [proc EXCEPT ![p].pc = "free", ![p].status = 1]
                   /\ stdin' = stdin
          /\ proc[p].pc = "free" => proc'[p].status = 1
          /\ proc[p].pc = "while" => proc'[p].pc = "prompt"]_vars

\* the shell has dispatched the line " \t" and is about to loop
C3_Witness ==
    /\ proc[Shell].pc = "while"
    /\ proc[Shell].line = <<32, 9, NUL>>
    /\ At(proc[Shell].args, 0) = NULLP
    /\ proc[Shell].status = 1
    /\ \A c \in Children : proc[c].st = "none"

IsBuiltin(name) == name \in {CdName, HelpName, ExitName}
IsExternal(p) == HasToks(p) /\ ~IsBuiltin(Toks(p)[1])
InLaunch(p) == proc[p].pc \in {"l_fork", "l_pid", "l_wait", "l_ret"}

\* C4: dsh_launch returns 1 in every outcome (child exited, child killed,
\* exec failed, fork failed), the shell stays alive through it, and the loop
\* goes on to the next prompt.
C4_LaunchAlwaysContinues ==
    [][\A p \in Pids : (Runs(p) /\ IsExternal(p) /\ Stepped(p)) =>
          /\ InLaunch(p) /\ proc[p].pid # 0 => proc'[p].st = "alive"
          /\ proc[p].pc = "l_ret"
                => proc'[p].status = 1 /\ proc'[p].pc = "free"
          /\ proc[p].pc = "free" => proc'[p].status = 1
          /\ proc[p].pc = "while" => proc'[p].pc = "prompt"]_vars

\* the command "no" names no executable: exec failed in the child, the
\* parent saw it exit, and the shell is about to loop
C4_Witness ==
    /\ proc[Shell].pc = "while"
    /\ Toks(Shell) = << <<110, 111>> >>
    /\ proc[Shell].wstatus = "exited"
    /\ proc[Shell].status = 1

\* the part of C5 about the flow of control, which holds: a child that runs
\* the shell's code is only ever at the exec, and one that ended there was
\* killed or exited with EXIT_FAILURE after perror
ChildStaysInLaunch ==
    \A c \in Children :
        (proc[c].st # "none" /\ proc[c].image = "dsh") =>
            /\ proc[c].pc = "l_pid"
            /\ proc[c].pid = 0
            /\ proc[c].st = "zombie" =>
                  \/ proc[c].exit = Signaled
                  \/ /\ proc[c].exit = Exited(EXIT_FAILURE)
                     /\ proc[c].diag = Perror("exec failed")

\* C5: a child whose exec fails ends with a failure status and never returns
\* from dsh_launch: only the shell executes the main loop, and no child ever
\* prints a prompt, reads stdin as the shell or frees the shell's buffers.
C5_ChildDoesNothingOfTheShell ==
    /\ ChildStaysInLaunch
    /\ \A c \in Children : ~proc[c].wrotePrompt

\* C6: after a successful fork the parent returns from dsh_launch only once
\* its child has ended; a wait that reports the child stopped makes the
\* parent wait again.
C6_ParentWaitsForTheEnd ==
    /\ [](\A p \in Pids :
            (Runs(p) /\ proc[p].pc = "l_ret" /\ proc[p].pid > 0)
                => proc[proc[p].pid].st = "none")
    /\ [][\A p \in Pids :
            (Runs(p) /\ proc[p].pc = "l_wait" /\ Stepped(p)) =>
               /\ proc[proc[p].pid].st = "stopped"
                     => /\ proc'[p].pc = "l_wait"
                        /\ proc'[proc[p].pid].st = "stopped"
               /\ proc'[p].pc = "l_ret"
                     => /\ proc[proc[p].pid].st \in {"zombie", "none"}
                        /\ proc'[proc[p].pid].st = "none"]_vars

\* the parent was told that its child stopped and is waiting again, the
\* child running once more
C6_Witness ==
    /\ proc[Shell].pc = "l_wait"
    /\ proc[Shell].wstatus = "stopped"
    /\ proc[proc[Shell].pid].st = "alive"
    /\ proc[proc[Shell].pid].stopSeen


IsExit(p) == HasToks(p) /\ Toks(p)[1] = ExitName
LoopEnded(p) == proc[p].pc = "main_ret"

\* C7: when token 0 is "exit", with or without arguments, the dispatcher
\* returns "stop" and does nothing else; the iteration still frees line and
\* args; then the loop ends, and after that the process prints no prompt,
\* reads no input and has no child.
C7_ExitStopsTheLoop ==
    [][\A p \in Pids :
         /\ (Runs(p) /\ IsExit(p) /\ Stepped(p)) =>
               /\ proc[p].pc = "execute"
                     => /\ proc' = [proc EXCEPT ![p].pc = "free",
                                                ![p].status = 0]
                        /\ stdin' = stdin
               /\ proc[p].pc = "free"
                     => /\ proc'[p].lineSt = "freed"
                        /\ proc'[p].argsSt = "freed"
                        /\ proc'[p].status = 0
                        /\ proc'[p].pc = "while"
               /\ proc[p].pc = "while" => LoopEnded(p)'
         /\ LoopEnded(p) =>
               /\ LoopEnded(p)'
               /\ Unread(p)' = Unread(p)
               /\ \A c \in Children : proc'[c].ppid # p]_vars

\* "exit x" was dispatched, both buffers were freed and the loop has ended
C7_Witness ==
    /\ LoopEnded(Shell)
    /\ Toks(Shell) = <<ExitName, <<120>> >>
    /\ proc[Shell].status = 0
    /\ proc[Shell].lineSt = "freed" /\ proc[Shell].argsSt = "freed"

IsCd(p) == HasToks(p) /\ Toks(p)[1] = CdName

\* C8: a cd with no token 1, or whose chdir fails (as it must for a path
\* that does not exist), leaves the working directory as it was, emits a
\* diagnostic and returns "continue"; a cd changes the directory only
\* without a diagnostic.
C8_FailedCdChangesNothing ==
    [][\A p \in Pids :
         (Runs(p) /\ proc[p].pc = "execute" /\ IsCd(p) /\ Stepped(p)) =>
            /\ proc'[p].status = 1 /\ proc'[p].pc = "free"
            /\ OthersUnchanged(p) /\ stdin' = stdin
            /\ (Len(Toks(p)) < 2 \/ Toks(p)[2] \notin ExistingDirs)
                  => proc'[p].diag # NoDiag
            /\ proc'[p].diag # NoDiag => proc'[p].cwd = proc[p].cwd
            /\ proc'[p].diag = NoDiag => proc'[p].cwd = Toks(p)[2]]_vars

\* after "cd /a", the command "cd /x" failed: a diagnostic, and still /a
C8_Witness ==
    /\ proc[Shell].pc = "free"
    /\ Toks(Shell) = <<CdName, <<47, 120>> >>
    /\ proc[Shell].diag = Perror("chdir failed")
    /\ proc[Shell].cwd = <<47, 97>>
    /\ proc[Shell].status = 1

\* C9: the working directory of a process running the shell's code changes
\* only by a cd to an existing directory D, and then to D; nothing else
\* (a launch, a child's own chdir, a failed cd) changes it, and every
\* launched program starts in the working directory its parent has.
C9_CdSticksAndIsInherited ==
    /\ [](\A c \in Children :
            (proc[c].st # "none" /\ proc[c].image = "prog")
                => /\ proc[c].execCwd = proc[proc[c].ppid].cwd
                   /\ proc[proc[c].ppid].pc \in {"l_pid", "l_wait"})
    /\ [][\A p \in Pids :
            (Runs(p) /\ Runs(p)' /\ proc'[p].ppid = proc[p].ppid
                     /\ proc'[p].cwd # proc[p].cwd) =>
               /\ proc[p].pc = "execute" /\ IsCd(p)
               /\ Len(Toks(p)) >= 2
               /\ Toks(p)[2] \in ExistingDirs
               /\ proc'[p].cwd = Toks(p)[2]]_vars

\* "cd /a" succeeded in the shell, which started in "/"; the program it then
\* launched started in /a and has since moved itself to "/"
C9_Witness ==
    \E c \in Children :
        /\ proc[c].st = "alive" /\ proc[c].image = "prog"
        /\ proc[c].execCwd = <<47, 97>>
        /\ proc[c].cwd = <<47>>
        /\ proc[Shell].cwd = <<47, 97>>
        /\ proc[Shell].pc = "l_wait"

\* C10: when fork fails the parent emits a diagnostic, has made no child,
\* performs no wait and returns "continue"; the loop goes on to the prompt.
C10_ForkFailureIsSurvived ==
    /\ [](\A p \in Pids :
            /\ (Runs(p) /\ proc[p].pc = "l_wait") => proc[p].pid > 0
            /\ (Runs(p) /\ InLaunch(p) /\ proc[p].pid = -1) =>
                  /\ \A c \in Children : proc[c].ppid # p
                  /\ proc[p].pc = "l_ret" => proc[p].diag = Perror("fork failed"))
    /\ [][\A p \in Pids :
            (Runs(p) /\ InLaunch(p) /\ proc[p].pid = -1 /\ Stepped(p)) =>
               /\ OthersUnchanged(p)
               /\ proc[p].pc = "l_pid" => proc'[p].pc = "l_ret"
               /\ proc[p].pc = "l_ret"
                     => proc'[p].status = 1 /\ proc'[p].pc = "free"]_vars

\* fork failed for "ls -l": the shell has printed the diagnostic and is
\* about to return from dsh_launch, with no child
C10_Witness ==
    /\ proc[Shell].pc = "l_ret"
    /\ proc[Shell].pid = -1
    /\ proc[Shell].diag = Perror("fork failed")
    /\ \A c \in Children : proc[c].st = "none"


(***************************************************************************)
(* Claims about allocation, release and the end of the input               *)
(***************************************************************************)
\* C11: a failed allocation in dsh_read_line or dsh_split_line (the first
\* buffer or a growth step) ends the shell at once with the diagnostic
\* "dsh: allocation error" and a failure status; a shell that ended so takes
\* no further step: it dispatches nothing, makes no child, prints no prompt.
C11_AllocFailureIsFatal ==
    /\ [](\A p \in Pids :
            proc[p].diag = DiagAlloc =>
               /\ proc[p].st = "zombie"
               /\ proc[p].exit = Exited(EXIT_FAILURE)
               /\ proc[p].pc \in {"read", "split"})
    /\ [][\A p \in Pids :
            /\ (Runs(p) /\ proc[p].pc \in {"read", "split"} /\ ~Runs(p)')
                  => proc'[p].diag = DiagAlloc /\ OthersUnchanged(p)
            /\ proc[p].diag = DiagAlloc
                  => proc' = proc /\ stdin' = stdin]_vars

\* the growth of the token array failed at the 64th token of a line of 64
\* tokens: the shell has ended in dsh_split_line with the diagnostic, the
\* line already cut into its tokens
C11_Witness ==
    /\ proc[Shell].st = "zombie"
    /\ proc[Shell].pc = "split"
    /\ proc[Shell].diag = DiagAlloc
    /\ proc[Shell].exit = Exited(EXIT_FAILURE)
    /\ Len(proc[Shell].line) = 2 * DSH_TOK_BUFSIZE
    /\ CStr(proc[Shell].line, 0) = <<97>>
    /\ \A c \in Children : proc[c].st = "none"

\* C12: every iteration releases its line and its token array exactly once,
\* at its end and whatever the dispatcher returned; so at the prompt, at the
\* read, at the loop test and after the loop the shell holds no live line or
\* token array, and between the tokenizer and the release it holds exactly
\* the ones of this iteration.
C12_BuffersReleasedOnce ==
    /\ [](\A p \in Pids : Runs(p) =>
            /\ proc[p].pc \in {"prompt", "read", "while", "main_ret"}
                  => proc[p].lineSt # "live" /\ proc[p].argsSt # "live"
            /\ proc[p].pc = "split"
                  => proc[p].lineSt = "live" /\ proc[p].argsSt # "live"
            /\ proc[p].pc \in {"execute", "l_fork", "l_pid", "l_wait",
                                "l_ret", "free"}
                  => proc[p].lineSt = "live" /\ proc[p].argsSt = "live")
    /\ [][\A p \in Pids : (Runs(p) /\ Runs(p)') =>
            /\ (proc'[p].lineSt = "freed" /\ proc[p].lineSt # "freed")
                  => proc[p].pc = "free" /\ proc[p].lineSt = "live"
            /\ (proc'[p].argsSt = "freed" /\ proc[p].argsSt # "freed")
                  => proc[p].pc = "free" /\ proc[p].argsSt = "live"
            /\ (proc[p].pc = "free" /\ Stepped(p))
                  => /\ proc'[p].lineSt = "freed" /\ proc'[p].argsSt = "freed"
                     /\ proc'[p].status = proc[p].status
                     /\ proc'[p].pc = "while"]_vars

\* "cd /x" failed with a diagnostic; the iteration has released both buffers
\* and the shell is about to print the next prompt
C12_Witness ==
    /\ Runs(Shell) /\ proc[Shell].pc = "prompt"
    /\ proc[Shell].diag = Perror("chdir failed")
    /\ proc[Shell].lineSt = "freed" /\ proc[Shell].argsSt = "freed"

\* the last read of p returned an empty line at the end of the input
EofAtZero(p) ==
    /\ proc[p].eof
    /\ proc[p].lineSt # "unset"
    /\ CStr(proc[p].line, 0) = << >>

\* p ended by a fatal allocation error
AllocDied(p) == ~Runs(p) /\ proc[p].diag = DiagAlloc

\* C13 as stated, its first part: once a read has met the end of the input
\* with nothing accumulated, the shell never terminates.
C13_NeverTerminatesAtEndOfInput ==
    [][\A p \in Pids : (Runs(p) /\ EofAtZero(p)) => Runs(p)']_vars

\* C13, amended: a read that meets the end of the input with nothing
\* accumulated returns an empty line, and so does every later read; each
\* yields zero tokens and "continue", no input and no child appear, and the
\* shell ends only by a fatal allocation error; as long as none happens
\* the loop comes to print the prompt again and again.
C13_EndOfInputLoops ==
    /\ [][\A p \in Pids :
            /\ (Runs(p) /\ proc[p].pc = "read" /\ Unread(p) = << >>
                  /\ Stepped(p))
                  => \/ AllocDied(p)'
                     \/ /\ Runs(p)' /\ EofAtZero(p)'
                        /\ proc'[p].pc = "split"
            /\ (Runs(p) /\ EofAtZero(p) /\ Stepped(p))
                  => /\ Unread(p)' = << >>
                     /\ OthersUnchanged(p)
                     /\ \/ AllocDied(p)'
                        \/ /\ Runs(p)' /\ EofAtZero(p)'
                           /\ proc[p].pc = "split"
                                 => /\ proc'[p].pc = "execute"
                                    /\ At(proc'[p].args, 0) = NULLP
                           /\ proc[p].pc = "execute"
                                 => /\ proc'[p].pc = "free"
                                    /\ proc'[p].status = 1
                           /\ proc[p].pc = "free" => proc'[p].status = 1
                           /\ proc[p].pc = "while"
                                 => proc'[p].pc = "prompt"]_vars
    /\ \A p \in Pids :
          (Runs(p) /\ EofAtZero(p) /\ proc[p].pc = "split")
              ~> (AllocDied(p) \/ (Runs(p) /\ proc[p].pc = "read"))

\* after the script "help" the input ended: the shell has read an empty
\* line at its end, gone round the loop and printed the prompt again, and
\* is about to read at the end of the input once more
C13_Witness ==
    /\ Runs(Shell) /\ EofAtZero(Shell)
    /\ proc[Shell].pc = "read"
    /\ proc[Shell].obufPrompt \/ proc[Shell].wrotePrompt
    /\ proc[Shell].lineSt = "freed"
    /\ At(proc[Shell].args, 0) = NULLP
    /\ proc[Shell].status = 1
    /\ stdin = << >>


(***************************************************************************)
(* Claims about the launched program and the end of the shell              *)
(***************************************************************************)
\* p is between the tokenizer's return and the release of its buffers
HoldsToks(p) ==
    proc[p].pc \in {"execute", "l_fork", "l_pid", "l_wait", "l_ret", "free"}

\* C14: the argument vector of a launched program is exactly the token
\* sequence the tokenizer made of the line: the tokens are the maximal runs
\* of non-delimiters of the line as read, nothing changes them between the
\* tokenizer and the release, the child execs token 0 as the file and all
\* the tokens, in order and up to the end marker, as its arguments.
C14_ArgvIsTheTokens ==
    /\ [](\A c \in Children :
            (proc[c].st # "none" /\ proc[c].image = "prog") =>
               /\ HoldsToks(proc[c].ppid)
               /\ proc[c].argv = Toks(proc[c].ppid)
               /\ proc[c].argv # << >>
               /\ proc[c].execFile = proc[c].argv[1])
    /\ [][\A p \in Pids : (Runs(p) /\ Runs(p)') =>
            /\ (proc[p].pc = "split" /\ proc'[p].pc = "execute")
                  => Toks(p)' = MaximalRuns(CStr(proc[p].line, 0))
            /\ (HoldsToks(p) /\ HoldsToks(p)')
                  => Toks(p)' = Toks(p)]_vars
    /\ [][\A c \in Children :
            (proc[c].st = "none" /\ proc'[c].st # "none")
                => /\ HoldsToks(c)' /\ HoldsToks(proc'[c].ppid)
                   /\ Toks(c)' = Toks(proc'[c].ppid)]_vars

\* the line "ls -l" was tokenized and launched: the program runs with the
\* arguments "ls" and "-l" while the shell waits for it
C14_Witness ==
    \E c \in Children :
        /\ proc[c].st = "alive" /\ proc[c].image = "prog"
        /\ proc[c].execFile = <<108, 115>>
        /\ proc[c].argv = << <<108, 115>>, <<45, 108>> >>
        /\ proc[Shell].pc = "l_wait"
        /\ Toks(Shell) = proc[c].argv

\* C15: a shell whose main loop has ended terminates with the exit code 0,
\* whatever the commands before did (exited with any code, were killed,
\* failed to exec, could not be forked); a shell that terminated otherwise
\* did so inside the loop.
C15_LoopEndExitsWithSuccess ==
    /\ [](\A p \in Pids :
            (proc[p].st = "zombie" /\ proc[p].image = "dsh"
                                  /\ proc[p].pc = "main_ret")
                => proc[p].exit = Exited(EXIT_SUCCESS))
    /\ [][\A p \in Pids :
            (Runs(p) /\ LoopEnded(p) /\ Stepped(p)) =>
               /\ proc'[p].st = "zombie"
               /\ proc'[p].pc = "main_ret"
               /\ proc'[p].exit = Exited(EXIT_SUCCESS)]_vars

\* the command before "exit" was launched and killed by a signal; the loop
\* has ended and the shell has terminated with the code 0
C15_Witness ==
    /\ proc[Shell].st = "zombie"
    /\ proc[Shell].pc = "main_ret"
    /\ proc[Shell].wstatus = "signaled"
    /\ proc[Shell].exit = Exited(EXIT_SUCCESS)
    /\ Toks(Shell) = <<ExitName>>

\* sequence t occurs in sequence s
Contains(s, t) ==
    \E i \in 0..(Len(s) - Len(t)) : SubSeq(s, i + 1, i + Len(t)) = t

\* C16: when exec fails in the child, the diagnostic the child prints holds
\* the command name, token 0.
C16_ExecDiagnosticNamesCommand ==
    \A c \in Children :
        (proc[c].st = "zombie" /\ proc[c].image = "dsh"
                              /\ proc[c].exit = Exited(EXIT_FAILURE))
            => Contains(PerrorLine(proc[c].diag), Toks(c)[1])

\* the children of p that are running or stopped
LiveChildren(p) ==
    {c \in Children : proc[c].ppid = p /\ proc[c].st \in {"alive", "stopped"}}

\* C17: the shell has at most one child alive at any time, and every child
\* lives inside the dispatch that made it: a child appears only by the fork
\* of dsh_launch, and outside dsh_launch (at the prompt, at the read, in the
\* tokenizer, at the release, after the loop) the shell has no child,
\* running, stopped or ended.
C17_OneChildInsideItsDispatch ==
    /\ [](\A p \in Pids :
            /\ Cardinality(LiveChildren(p)) <= 1
            /\ (proc[p].image = "dsh" /\ proc[p].pc \notin {"l_pid", "l_wait"})
                  => \A c \in Children :
                         proc[c].ppid = p => proc[c].st = "none")
    /\ [][\A c \in Children :
            (proc[c].st = "none" /\ proc'[c].st # "none") =>
               /\ proc'[c].ppid = Shell
               /\ proc[Shell].pc = "l_fork"
               /\ proc'[Shell].pid = c
               /\ LiveChildren(Shell) = {}]_vars

\* "ls -l" ran and exited; the shell is at the read of the next iteration
\* and has no child
C17_Witness ==
    /\ Runs(Shell) /\ proc[Shell].pc = "read"
    /\ proc[Shell].wstatus = "exited"
    /\ Toks(Shell) = << <<108, 115>>, <<45, 108>> >>
    /\ \A c \in Children : proc[c].st = "none"

\* C18: an iteration goes prompt, read, tokenize, dispatch, release, loop
\* test, in this order; the loop ends only after a whole iteration; the
\* next iteration starts exactly when the dispatcher returned non-zero; and
\* the tokenizer, the dispatcher and the child at its exec read the line
\* and the tokens only while both are live.
C18_IterationOrder ==
    /\ [](\A p \in Pids :
            (proc[p].image = "dsh" /\ proc[p].pc \in {"while", "main_ret"})
                => proc[p].lineSt = "freed" /\ proc[p].argsSt = "freed")
    /\ [][\A p \in Pids : (Runs(p) /\ Stepped(p)) =>
            /\ Runs(p)' =>
                  /\ proc[p].pc = "prompt" => proc'[p].pc = "read"
                  /\ proc[p].pc = "read" => proc'[p].pc = "split"
                  /\ proc[p].pc = "split" => proc'[p].pc = "execute"
                  /\ proc[p].pc = "execute"
                        => proc'[p].pc \in {"l_fork", "free"}
                  /\ InLaunch(p)
                        => InLaunch(p)' \/ proc'[p].pc = "free"
                  /\ proc[p].pc = "free" => proc'[p].pc = "while"
                  /\ proc[p].pc = "while"
                        => /\ proc[p].status # 0 => proc'[p].pc = "prompt"
                           /\ proc[p].status = 0 => proc'[p].pc = "main_ret"
            /\ proc[p].pc = "split" => proc[p].lineSt = "live"
            /\ (proc[p].pc = "execute" \/ proc[p].pc = "l_pid")
                  => proc[p].lineSt = "live" /\ proc[p].argsSt = "live"]_vars

\* the first iteration launched a command and returned 1; the second has
\* printed its prompt, read and tokenized "exit", and is at the dispatch
\* with both buffers live
C18_Witness ==
    /\ Runs(Shell) /\ proc[Shell].pc = "execute"
    /\ proc[Shell].status = 1
    /\ proc[Shell].wstatus = "exited"
    /\ Toks(Shell) = <<ExitName>>
    /\ proc[Shell].lineSt = "live" /\ proc[Shell].argsSt = "live"


(***************************************************************************)
(* Claims about the capacities of the two buffers                          *)
(***************************************************************************)
\* the first n cells of two buffers are the same
SamePrefix(a, b, n) == \A i \in 0..(n - 1) : At(a, i) = At(b, i)

\* C19: in dsh_read_line every write (a character or the terminator) is at
\* a position below the capacity; the capacity starts at 1024, never
\* shrinks, grows by exactly 1024 exactly when the position reaches it, and
\* the growth keeps every character written; with n characters stored the
\* capacity is 1024 * (n \div 1024 + 1).
C19_ReadLineCapacity ==
    /\ [](rl.pc # "idle" =>
            /\ ~rl.oob
            /\ rl.bufsize = 1024 * (rl.position \div 1024 + 1)
            /\ rl.pc \in {"loop", "done"} => rl.position < rl.bufsize
            /\ Len(rl.buffer) <= rl.bufsize
            /\ rl.pc = "fatal" => rl.position \in {0, rl.bufsize - 1024})
    /\ [][rl.pc = "loop" =>
            /\ rl'.bufsize \in {rl.bufsize, rl.bufsize + 1024}
            /\ rl'.bufsize = rl.bufsize + 1024 <=> rl'.position = rl.bufsize
            /\ SamePrefix(rl'.buffer, rl.buffer, rl.position)
            /\ rl'.pc # "done" =>
                  /\ rl'.position = rl.position + 1
                  /\ At(rl'.buffer, rl.position) = Head(rl.in)
            /\ rl'.pc = "done" =>
                  /\ rl'.position = rl.position
                  /\ At(rl'.buffer, rl.position) = NUL]_vars

\* a line of exactly 2048 characters was read: the buffer grew twice, to
\* 3072, and the terminator went to index 2048
C19_Witness ==
    /\ rl.pc = "done"
    /\ rl.position = 2048
    /\ rl.bufsize = 3072
    /\ rl.allocs = 3
    /\ At(rl.buffer, 2048) = NUL
    /\ ~rl.oob

\* the number of tokens of a line
NumToks(s) == Cardinality(RunStarts(s))

\* C20: in dsh_split_line every write to the token array (a token or the
\* end marker) is at an index below the capacity, also for lines of exactly
\* 64, 128, ... tokens; the capacity starts at 64 and grows by exactly 64
\* exactly when the token count reaches it, keeping the tokens stored; a
\* line of n tokens yields them at the indices 0..n-1 and the end marker at
\* index n.
C20_SplitLineCapacity ==
    /\ [](sl.pc # "idle" =>
            /\ ~sl.oob
            /\ sl.bufsize = 64 * (sl.position \div 64 + 1)
            /\ sl.pc \in {"loop", "done"} => sl.position < sl.bufsize
            /\ Len(sl.tokens) <= sl.bufsize
            /\ sl.pc = "done" =>
                  /\ sl.position = NumToks(slLine)
                  /\ Len(sl.tokens) = sl.position + 1
                  /\ At(sl.tokens, sl.position) = NULLP
                  /\ \A k \in 0..(sl.position - 1) :
                         /\ At(sl.tokens, k) # NULLP
                         /\ CStr(sl.mem, At(sl.tokens, k))
                                = MaximalRuns(slLine)[k + 1])
    /\ [][sl.pc = "loop" =>
            /\ sl'.bufsize \in {sl.bufsize, sl.bufsize + 64}
            /\ sl'.bufsize = sl.bufsize + 64 <=> sl'.position = sl.bufsize
            /\ SamePrefix(sl'.tokens, sl.tokens, sl.position)
            /\ sl'.pc # "done" =>
                  /\ sl'.position = sl.position + 1
                  /\ At(sl'.tokens, sl.position) = sl.token
            /\ sl'.pc = "done" =>
                  /\ sl'.position = sl.position
                  /\ At(sl'.tokens, sl.position) = NULLP]_vars

\* a line of exactly 64 tokens was split: the array grew once, to 128, and
\* the end marker went to index 64
C20_Witness ==
    /\ sl.pc = "done"
    /\ sl.position = 64
    /\ sl.bufsize = 128
    /\ sl.allocs = 2
    /\ At(sl.tokens, 64) = NULLP
    /\ ~sl.oob


(***************************************************************************)
(* Claims about the tokens and the line's storage                          *)
(***************************************************************************)
\* the tokens found so far: those stored in the array and the one strtok
\* returned last
FoundToks(s) ==
    {At(s.tokens, k) : k \in 0..(s.position - 1)}
        \cup (IF s.pc = "loop" /\ s.token # NULLP THEN {s.token} ELSE {})

\* C21: dsh_split_line copies no characters.  Each token is a span of the
\* line's own storage holding the line's characters of that span; the spans
\* are disjoint and in increasing position; the storage changes only where
\* the line has a delimiter right after a token, which becomes a NUL;
\* every other character keeps its value and its place.
C21_TokensAliasTheLine ==
    /\ [](sl.pc # "idle" =>
            /\ Len(sl.mem) = Len(slLine) + 1
            /\ At(sl.mem, Len(slLine)) = NUL
            /\ \A i \in 0..(Len(slLine) - 1) :
                  At(sl.mem, i) # slLine[i + 1] =>
                      /\ slLine[i + 1] \in ClaimDelims
                      /\ At(sl.mem, i) = NUL
                      /\ \E b \in FoundToks(sl) : StrEnd(sl.mem, b) = i
            /\ \A b \in FoundToks(sl) :
                  /\ 0 <= b /\ b < StrEnd(sl.mem, b)
                  /\ StrEnd(sl.mem, b) <= Len(slLine)
                  /\ CStr(sl.mem, b) = SubSeq(slLine, b + 1, StrEnd(sl.mem, b))
            /\ \A k \in 1..(sl.position - 1) :
                  StrEnd(sl.mem, At(sl.tokens, k - 1)) < At(sl.tokens, k))
    /\ [][sl.pc = "loop" =>
            \A i \in 0..(Len(slLine) - 1) :
                At(sl'.mem, i) # At(sl.mem, i) =>
                    At(sl.mem, i) \in ClaimDelims /\ At(sl'.mem, i) = NUL]_vars

\* the line "a  b" was split: the tokens start at the indices 0 and 3, the
\* space after "a" became a NUL and the second space stayed
C21_Witness ==
    /\ sl.pc = "done"
    /\ slLine = <<97, 32, 32, 98>>
    /\ sl.mem = <<97, NUL, 32, 98, NUL>>
    /\ sl.tokens = <<0, 3, NULLP>>


\* the tokens joined by single spaces: the first half of them joined, a
\* space, the second half joined
RECURSIVE JoinSp(_)
JoinSp(toks) ==
    IF toks = << >> THEN << >>
    ELSE IF Len(toks) = 1 THEN toks[1]
    ELSE JoinSp(SubSeq(toks, 1, Len(toks) \div 2)) \o <<32>>
             \o JoinSp(SubSeq(toks, Len(toks) \div 2 + 1, Len(toks)))

\* a line that starts or ends with a delimiter or holds two in a row
HasSpareDelims(s) ==
    \/ s # << >> /\ (s[1] \in ClaimDelims \/ s[Len(s)] \in ClaimDelims)
    \/ \E i \in 1..(Len(s) - 1) : s[i] \in ClaimDelims /\ s[i + 1] \in ClaimDelims

\* C22: for every line L, the tokens of L joined by single spaces make a
\* line without leading, trailing or consecutive delimiters, and
\* dsh_split_line on the joined line returns the tokens of L again.
C22_SplitIsIdempotent ==
    sl.pc = "done" =>
        \A toks \in {ArgStrings(sl.mem, sl.tokens)} :
        \A joined \in {JoinSp(toks)} :
        \A again \in {DshSplitLine(BufOf(joined \o <<NUL>>), 0)} :
            /\ ~HasSpareDelims(joined)
            /\ again.pc = "done"
            /\ ArgStrings(again.mem, again.tokens) = toks

\* the line " a\tb" was split; joined, its tokens make "a b"
C22_Witness ==
    /\ sl.pc = "done"
    /\ slLine = <<32, 97, 9, 98>>
    /\ HasSpareDelims(slLine)
    /\ JoinSp(ArgStrings(sl.mem, sl.tokens)) = <<97, 32, 98>>


(***************************************************************************)
(* Claims about the wait for the child                                     *)
(***************************************************************************)
\* process p is in the wait loop of dsh_launch and the child it made has
\* ended: it has exited or was killed, and is a zombie or already gone
ChildEnded(p) ==
    /\ Runs(p) /\ proc[p].pc = "l_wait"
    /\ proc[proc[p].pid].st \in {"zombie", "none"}

\* C23: once the child made by dsh_launch has ended (it exited or a signal
\* killed it), the parent's wait loop ends, dsh_launch returns and the
\* shell prints the next prompt.
C23_EndedChildUnblocksTheShell ==
    \A p \in Pids : ChildEnded(p) ~> (Runs(p) /\ proc[p].pc = "read")


(***************************************************************************)
(* Claims about the input across iterations                                *)
(***************************************************************************)
\* what follows the first line of a stream and its newline
AfterFirstLine(in) ==
    SubSeq(in, Len(FirstLine(in)) + 2, Len(in))

\* C24: the shell consumes the input in order and one line an iteration.
\* As long as the shell runs, each dsh_read_line call returns the first
\* line of what the shell has yet to read and leaves what follows that
\* line's newline, and no other step of any process changes what the shell
\* has yet to read: so the i-th iteration dispatches the i-th line, and no
\* character is lost, duplicated or carried over.
C24_InputConsumedInOrder ==
    [][(Runs(Shell) /\ Runs(Shell)') =>
          IF proc[Shell].pc = "read" /\ Stepped(Shell)
          THEN /\ CStr(proc'[Shell].line, 0) = FirstLine(Unread(Shell))
               /\ Unread(Shell)' = AfterFirstLine(Unread(Shell))
          ELSE Unread(Shell)' = Unread(Shell)]_vars

=============================================================================
